---- MODULE Spec2Model ----
(***************************************************************************)
(* Model of src/src/strategy_utils.py: the walk of                         *)
(* MaintenanceStrategy.add_downtimes over a wind data frame, the policies' *)
(* fix_pressure, and calculate_revenue.                                    *)
(*                                                                         *)
(* Representation.  Timestamps are whole hours counted from                *)
(* 2023-01-01 00:00.  Pressures are the program's IEEE-754 doubles, held   *)
(* exactly: a double is a sign and a magnitude counted in units of         *)
(* 2^-66 bar, the magnitude written as NLimbs limbs of LimbBits bits, the  *)
(* least limb first.  Every double of magnitude 2^-13 bar or more, and     *)
(* zero, is a whole number of these units, and so is every pressure that   *)
(* line 66 computes from INIT_PRES; subtraction rounds to 53 significant   *)
(* bits, to nearest, ties to even, as the hardware does.  The rounding is  *)
(* defined for magnitudes below 256 bar.  The data frame is held column    *)
(* by column as sequences over the row positions 1..Len(index).  A cell of *)
(* the pressure column that holds np.nan is the value NaN, on which every  *)
(* comparison is false.                                                    *)
(***************************************************************************)
EXTENDS Integers, Sequences, FiniteSets, TLC

VARIABLES
    index,            \* wind_df.index: the timestamps of the rows
    speed,            \* wind_df["Speed (m/s)"]
    revenue,          \* wind_df["Revenue (Eur)"]
    pressure,         \* wind_df["pressure"], <<>> while the column is absent
    visit,            \* wind_df["visit"], <<>> while the column is absent
    policy,           \* the strategy object's class and parameters
    n_visits,         \* self.n_visits
    current_pressure, \* local of add_downtimes
    end_visit_ts,     \* local of add_downtimes
    pending_visit,    \* local of add_downtimes
    send_vessel,      \* local of add_downtimes: the policy's last answer
    i,                \* position of the row the for loop yields next
    pc,               \* "idle", "walk", "done" or "reported"
    total_revenue,    \* value returned by the last calculate_revenue
    runs,             \* calls of add_downtimes made on this object so far
    visits,           \* history: <<start, end>> of the visits of this walk
    carried,          \* history: current_pressure at the end of each step
    dropped,          \* history: positions whose step left at the wind gate
    n_resets,         \* history: resets of current_pressure in this walk
    prev_out          \* history: output of the previous call of add_downtimes

vars == <<index, speed, revenue, pressure, visit, policy, n_visits,
          current_pressure, end_visit_ts, pending_visit, send_vessel, i, pc,
          total_revenue, runs, visits, carried, dropped, n_resets, prev_out>>

(***************************************************************************)
(* Doubles                                                                 *)
(***************************************************************************)
LimbBits == 22
LimbBase == 4194304              \* 2^LimbBits
NLimbs == 4
Precision == 53                  \* significant bits of a double

Double(sign, mag) == [sign |-> sign, mag |-> mag]
Zero == Double(1, <<0, 0, 0, 0>>)     \* 0.0; with sign -1 it is -0.0
NaN == Double(0, <<0, 0, 0, 0>>)  \* np.nan
IsNaN(p) == p.sign = 0

Pow2[k \in 0..LimbBits] == IF k = 0 THEN 1 ELSE 2 * Pow2[k - 1]

\* number of bits of the limb v
BitsOf[v \in 0..(LimbBase - 1)] == IF v = 0 THEN 0 ELSE 1 + BitsOf[v \div 2]

Magnitudes == [1..NLimbs -> 0..(LimbBase - 1)]
Doubles == [sign : {0 - 1, 0, 1}, mag : Magnitudes]

\* position of the greatest nonzero limb among the limbs 1..k of a, or 0
TopLimb[a \in Magnitudes, k \in 0..NLimbs] ==
    IF k = 0 THEN 0 ELSE IF a[k] # 0 THEN k ELSE TopLimb[a, k - 1]

BitLen(a) ==
    LET t == TopLimb[a, NLimbs]
    IN  IF t = 0 THEN 0 ELSE (t - 1) * LimbBits + BitsOf[a[t]]

\* -1, 0 or 1 as the limbs 1..k of a are below, equal to or above those of b
MagCmpFrom[a \in Magnitudes, b \in Magnitudes, k \in 0..NLimbs] ==
    IF k = 0 THEN 0
    ELSE IF a[k] < b[k] THEN 0 - 1
    ELSE IF a[k] > b[k] THEN 1
    ELSE MagCmpFrom[a, b, k - 1]

MagCmp(a, b) == MagCmpFrom[a, b, NLimbs]

\* the limbs k..NLimbs of a + b + carry
MagAddFrom[a \in Magnitudes, b \in Magnitudes, k \in 1..(NLimbs + 1), carry \in 0..1] ==
    IF k > NLimbs THEN <<>>
    ELSE LET s == a[k] + b[k] + carry
         IN  <<s % LimbBase>> \o MagAddFrom[a, b, k + 1, s \div LimbBase]

MagAdd(a, b) == MagAddFrom[a, b, 1, 0]

\* the limbs k..NLimbs of a - b - borrow, for a >= b
MagSubFrom[a \in Magnitudes, b \in Magnitudes, k \in 1..(NLimbs + 1), borrow \in 0..1] ==
    IF k > NLimbs THEN <<>>
    ELSE LET s == a[k] - b[k] - borrow
         IN  <<IF s < 0 THEN s + LimbBase ELSE s>>
             \o MagSubFrom[a, b, k + 1, IF s < 0 THEN 1 ELSE 0]

MagSub(a, b) == MagSubFrom[a, b, 1, 0]

\* the magnitude a rounded to a multiple of 2^drop, to nearest, ties to even
RoundAt[a \in Magnitudes, drop \in 1..(LimbBits - 1)] ==
    LET unit == Pow2[drop]
        low == a[1] % unit
        down == [a EXCEPT ![1] = a[1] - low]
        up == MagAdd(down, <<unit, 0, 0, 0>>)
        odd == (a[1] \div unit) % 2 = 1
    IN  IF 2 * low < unit THEN down
        ELSE IF 2 * low > unit THEN up
        ELSE IF odd THEN up ELSE down

\* the exact magnitude a rounded to Precision significant bits; a magnitude
\* of at most Precision bits is a double already
RoundToDouble[a \in Magnitudes] ==
    IF BitLen(a) <= Precision THEN a ELSE RoundAt[a, BitLen(a) - Precision]

\* x - y of two doubles
FSub[x \in Doubles, y \in Doubles] ==
    IF IsNaN(x) \/ IsNaN(y) THEN NaN
    ELSE IF x.sign # y.sign
    THEN Double(x.sign, RoundToDouble[MagAdd(x.mag, y.mag)])
    ELSE CASE MagCmp(x.mag, y.mag) = 1 ->
                 Double(x.sign, RoundToDouble[MagSub(x.mag, y.mag)])
           [] MagCmp(x.mag, y.mag) = 0 - 1 ->
                 Double(0 - x.sign, RoundToDouble[MagSub(y.mag, x.mag)])
           [] MagCmp(x.mag, y.mag) = 0 -> Zero

\* x < y, x <= y and x >= y of two doubles: false when either is NaN; the
\* zeros of the two signs compare equal
Lt[x \in Doubles, y \in Doubles] ==
    /\ ~IsNaN(x)
    /\ ~IsNaN(y)
    /\ IF x.sign # y.sign
       THEN x.sign < y.sign /\ ~(x.mag = Zero.mag /\ y.mag = Zero.mag)
       ELSE IF x.sign = 1 THEN MagCmp(x.mag, y.mag) = 0 - 1
       ELSE MagCmp(x.mag, y.mag) = 1
Le[x \in Doubles, y \in Doubles] == ~IsNaN(x) /\ ~IsNaN(y) /\ ~Lt[y, x]
Ge[x \in Doubles, y \in Doubles] == Le[y, x]

(***************************************************************************)
(* Program constants                                                       *)
(***************************************************************************)
MAX_WIND_SPEED == 5
MAINTENANCE_DURATION == 1        \* in days
VESSEL_COST == 50000
INIT_PRES == Double(1, <<0, 0, 0, 2>>)                    \* 2 bars: 2^67 units
MIN_PRES == Double(1, <<0, 0, 2097152, 0>>)               \* 0.5 bars: 2^65 units
\* 0.0001 bars per row: the double 0x1.a36e2eb1c432dp-14
DECLINE_RATE == Double(1, <<1852205, 1805228, 419, 0>>)
HoursPerDay == 24                \* datetime.timedelta(days=1)

\* doubles of the literals a caller writes for a threshold
Double_1_9999 == Double(1, <<2342912, 2389075, 4193884, 1>>)  \* 0x1.fff972474538fp+0
Double_1_9998 == Double(1, <<491520, 583847, 4193465, 1>>)    \* 0x1.fff2e48e8a71ep+0
Double_1_9997 == Double(1, <<2834432, 2972922, 4193045, 1>>)  \* 0x1.ffec56d5cfaadp+0
Double_1_9989 == Double(1, <<589824, 1114007, 4189690, 1>>)   \* 0x1.ffb7e90ff9724p+0
Double_1_9988 == Double(1, <<2932736, 3503082, 4189270, 1>>)  \* 0x1.ffb15b573eab3p+0
\* the greatest double below MIN_PRES: 0x1.fffffffffffffp-2
BelowMinPres == Double(1, <<4190208, 4194303, 2097151, 0>>)

(***************************************************************************)
(* Bounds of the explored inputs                                           *)
(***************************************************************************)
MaxLen == 4          \* rows of the series walked by add_downtimes
MaxRuns == 2         \* calls of add_downtimes on one strategy object
MaxRevLen == 3       \* rows of the frames handed to calculate_revenue alone
MaxVisitCount == 2   \* n_visits of the frames handed to calculate_revenue alone
MaxSchedLen == 6     \* rows of the fixed-cadence series of the scheduled walks
MaxHourlyLen == 13   \* rows of the hourly series of the condition-monitored walks

Gaps == {12, 24}                 \* hours between consecutive rows
Cadences == {6, 8, 12}           \* hours between the rows of a fixed-cadence series
StartValues == {720}             \* first timestamp: 2023-01-31 00:00
SpeedValues == {MAX_WIND_SPEED, MAX_WIND_SPEED + 1}
RevenueValues == {-1, 2}
\* revenue columns of the walked series: power k MW at price 10k Eur/MWh in
\* row k, and a series of negative prices
RevenueColumns(n) == {[k \in 1..n |-> 10 * k * k], [k \in 1..n |-> 0 - k]}
\* the constructors take any number: values out of the calendar's range and a
\* threshold of zero are among the parameters
Thresholds == {Double_1_9999, Double_1_9998, Double_1_9997, Zero}
\* thresholds reached by the first, the eleventh and the twelfth decrement
HourlyThresholds == {Double_1_9999, Double_1_9989, Double_1_9988}
ScheduleDays == {31, 1, 32}
ScheduleMonths == {1, 2, 13}
PressureSamples == {NaN, BelowMinPres, MIN_PRES, INIT_PRES}

Range(s) == {s[k] : k \in DOMAIN s}
Last(s) == s[Len(s)]

(***************************************************************************)
(* datetime: month and day of a timestamp (2023, not a leap year)          *)
(***************************************************************************)
MonthLengths == <<31, 28, 31, 30, 31, 30, 31, 31, 30, 31, 30, 31>>

RECURSIVE MonthDay(_, _)
\* <<month, day>> of the d-th day (from 0) counted from the first of month m
MonthDay(m, d) ==
    IF d < MonthLengths[m] THEN <<m, d + 1>> ELSE MonthDay(m + 1, d - MonthLengths[m])

Month(ts) == MonthDay(1, ts \div HoursPerDay)[1]
Day(ts) == MonthDay(1, ts \div HoursPerDay)[2]

timedelta(days) == days * HoursPerDay

(***************************************************************************)
(* Policies                                                                *)
(***************************************************************************)
ScheduledMaintenance(day, month) ==
    [kind |-> "Scheduled", day |-> day, month |-> month,
     pressure_threshold |-> Zero, table |-> {}]

ConditionMonitoring(pressure_threshold) ==
    [kind |-> "Condition", day |-> 0, month |-> 0,
     pressure_threshold |-> pressure_threshold, table |-> {}]

\* A subclass written by a user of the abstract class: it answers true exactly
\* at the timestamps of its table.
TablePolicy(table) ==
    [kind |-> "Table", day |-> 0, month |-> 0, pressure_threshold |-> Zero,
     table |-> table]

fix_pressure_Lt(self, pres, current_time, current_wind_speed) ==
    CASE self.kind = "Scheduled" ->
            Month(current_time) = self.month /\ Day(current_time) = self.day
      [] self.kind = "Condition" -> Lt[pres, self.pressure_threshold]
      [] self.kind = "Table" -> current_time \in self.table
fix_pressure(self, pres, current_time, current_wind_speed) ==
    CASE self.kind = "Scheduled" ->
            Month(current_time) = self.month /\ Day(current_time) = self.day
      [] self.kind = "Condition" -> Le[pres, self.pressure_threshold]
      [] self.kind = "Table" -> current_time \in self.table

(***************************************************************************)
(* Pieces of the loop body of add_downtimes                                *)
(***************************************************************************)
\* line 66: current_pressure-=DECLINE_RATE
Decline(p) == FSub[p, DECLINE_RATE]

\* the pressure handed to fix_pressure: line 66 has run when line 68 reads it
Observed_BeforeDecrement(cur) == cur
Observed(cur) == Decline(cur)

CanStart_NoGuard(pending, send) == send
CanStart(pending, send) == pending = FALSE /\ send

WindGate_Off(sp) == FALSE
WindGate_Ge(sp) == sp >= MAX_WIND_SPEED
WindGate(sp) == sp > MAX_WIND_SPEED

EndVisitTs_NoClamp(idx, ind) ==
    ind + timedelta(MAINTENANCE_DURATION)
EndVisitTs_SameRow(idx, ind) == ind
EndVisitTs(idx, ind) ==
    IF ind + timedelta(MAINTENANCE_DURATION) < Last(idx)
    THEN SelectSeq(idx, LAMBDA t : t >= ind + timedelta(MAINTENANCE_DURATION))[1]
    ELSE Last(idx)

OngoingFlag_Never(pending, old) == old
OngoingFlag(pending, old) == IF pending = TRUE THEN 1 ELSE old

VisitOver_Ge(ind, end_ts) == ind >= end_ts
VisitOver(ind, end_ts) == ind = end_ts

(***************************************************************************)
(* calculate_revenue                                                       *)
(***************************************************************************)
Mask_Gt(p, v) == Lt[MIN_PRES, p] /\ v = 0
Mask(p, v) == Ge[p, MIN_PRES] /\ v = 0

RECURSIVE SumMasked(_, _, _, _)
\* .loc[mask, "Revenue (Eur)"].sum() over the rows k..Len(rev)
SumMasked(pres, vis, rev, k) ==
    IF k > Len(rev) THEN 0
    ELSE (IF Mask(pres[k], vis[k]) THEN rev[k] ELSE 0) + SumMasked(pres, vis, rev, k + 1)

calculate_revenue(pres, vis, rev, nv) ==
    LET cost_visits == nv * VESSEL_COST
    IN  SumMasked(pres, vis, rev, 1) - cost_visits

(***************************************************************************)
(* Initial states                                                          *)
(***************************************************************************)
RECURSIVE Series(_)
\* the strictly increasing timestamp sequences of n rows
Series(n) ==
    IF n = 1 THEN {<<t>> : t \in StartValues}
    ELSE {Append(s, Last(s) + g) : s \in Series(n - 1), g \in Gaps}

Policies(idx) ==
    {ScheduledMaintenance(d, m) : d \in ScheduleDays, m \in ScheduleMonths}
    \cup {ConditionMonitoring(th) : th \in Thresholds}
    \cup {TablePolicy(tb) : tb \in SUBSET Range(idx)}

NoOutput == [pressure |-> <<>>, visit |-> <<>>, n_visits |-> 0]

Init ==
    /\ \E n \in 1..MaxLen :
          /\ index \in Series(n)
          /\ speed \in [1..n -> SpeedValues]
          /\ revenue \in RevenueColumns(n)
    /\ policy \in Policies(index)
    /\ pressure = <<>>
    /\ visit = <<>>
    /\ n_visits = 0
    /\ current_pressure = INIT_PRES
    /\ end_visit_ts = 0
    /\ pending_visit = FALSE
    /\ send_vessel = FALSE
    /\ i = 1
    /\ pc = "idle"
    /\ total_revenue = 0
    /\ runs = 0
    /\ visits = <<>>
    /\ carried = <<>>
    /\ dropped = {}
    /\ n_resets = 0
    /\ prev_out = NoOutput

(***************************************************************************)
(* add_downtimes                                                           *)
(***************************************************************************)
\* Lines 58-62: the columns and the locals are set up.
AddDowntimesBegin ==
    /\ pc \in {"idle", "done", "reported"}
    /\ runs < MaxRuns
    /\ pressure' = [k \in 1..Len(index) |-> NaN]
    /\ visit' = [k \in 1..Len(index) |-> 0]
    /\ current_pressure' = INIT_PRES
    /\ end_visit_ts' = Last(index) + timedelta(1)
    /\ pending_visit' = FALSE
    /\ send_vessel' = FALSE
    /\ i' = 1
    /\ pc' = "walk"
    /\ total_revenue' = 0
    /\ runs' = runs + 1
    /\ visits' = <<>>
    /\ carried' = <<>>
    /\ dropped' = {}
    /\ n_resets' = 0
    /\ prev_out' = [pressure |-> pressure, visit |-> visit, n_visits |-> n_visits]
    /\ UNCHANGED <<index, speed, revenue, policy, n_visits>>

\* Lines 64-103: one iteration of the for loop, on row i.
Step ==
    /\ pc = "walk"
    /\ i <= Len(index)
    /\ \E decayed \in {Decline(current_pressure)} :                       \* line 66
       \E send \in {fix_pressure(policy, Observed(current_pressure),
                                 index[i], speed[i])} :                  \* line 68
       LET ind == index[i]
           enter == CanStart(pending_visit, send)
       IN  /\ send_vessel' = send
           /\ i' = i + 1
           /\ IF enter /\ WindGate(speed[i])
              THEN \* line 77: continue
                   /\ current_pressure' = decayed
                   /\ carried' = Append(carried, decayed)
                   /\ dropped' = dropped \cup {i}
                   /\ UNCHANGED <<pressure, visit, n_visits, end_visit_ts,
                                  pending_visit, visits, n_resets>>
              ELSE LET end_ts == IF enter THEN EndVisitTs(index, ind) ELSE end_visit_ts
                       pending == IF enter THEN TRUE ELSE pending_visit
                       started == IF enter THEN 1 ELSE visit[i]
                       over == VisitOver(ind, end_ts)
                       pres == IF over THEN INIT_PRES ELSE decayed
                   IN  /\ n_visits' = IF enter THEN n_visits + 1 ELSE n_visits
                       /\ end_visit_ts' = end_ts
                       /\ visit' = [visit EXCEPT ![i] = OngoingFlag(pending, started)]
                       /\ pending_visit' = IF over THEN FALSE ELSE pending
                       /\ current_pressure' = pres
                       /\ pressure' = [pressure EXCEPT ![i] = pres]
                       /\ visits' = IF enter THEN Append(visits, <<ind, end_ts>>) ELSE visits
                       /\ carried' = Append(carried, pres)
                       /\ n_resets' = IF over THEN n_resets + 1 ELSE n_resets
                       /\ UNCHANGED dropped
    /\ UNCHANGED <<index, speed, revenue, policy, pc, total_revenue, runs, prev_out>>

\* Line 105: the loop is exhausted and the frame is returned.
AddDowntimesReturn ==
    /\ pc = "walk"
    /\ i > Len(index)
    /\ pc' = "done"
    /\ UNCHANGED <<index, speed, revenue, pressure, visit, policy, n_visits,
                   current_pressure, end_visit_ts, pending_visit, send_vessel, i,
                   total_revenue, runs, visits, carried, dropped, n_resets, prev_out>>

\* Lines 119-122.
CalculateRevenue ==
    /\ pc = "done"
    /\ total_revenue' = calculate_revenue(pressure, visit, revenue, n_visits)
    /\ pc' = "reported"
    /\ UNCHANGED <<index, speed, revenue, pressure, visit, policy, n_visits,
                   current_pressure, end_visit_ts, pending_visit, send_vessel, i,
                   runs, visits, carried, dropped, n_resets, prev_out>>

Next == AddDowntimesBegin \/ Step \/ AddDowntimesReturn \/ CalculateRevenue

Spec == Init /\ [][Next]_vars

(***************************************************************************)
(* ScheduledMaintenance on a fixed-cadence series with several rows per    *)
(* calendar day                                                            *)
(***************************************************************************)
InitScheduled ==
    /\ \E n \in 1..MaxSchedLen :
          /\ index \in {[k \in 1..n |-> t + (k - 1) * c] :
                            t \in StartValues, c \in Cadences}
          /\ speed \in [1..n -> SpeedValues]
          /\ revenue = [k \in 1..n |-> 10 * k * k]
    /\ policy \in {ScheduledMaintenance(d, m) : d \in ScheduleDays, m \in ScheduleMonths}
    /\ pressure = <<>>
    /\ visit = <<>>
    /\ n_visits = 0
    /\ current_pressure = INIT_PRES
    /\ end_visit_ts = 0
    /\ pending_visit = FALSE
    /\ send_vessel = FALSE
    /\ i = 1
    /\ pc = "idle"
    /\ total_revenue = 0
    /\ runs = 0
    /\ visits = <<>>
    /\ carried = <<>>
    /\ dropped = {}
    /\ n_resets = 0
    /\ prev_out = NoOutput

SpecScheduled == InitScheduled /\ [][Next]_vars

(***************************************************************************)
(* ConditionMonitoring on an hourly series long enough for the pressure to *)
(* decay past ten decrements, with the wind above the limit on the first   *)
(* w rows and at the limit afterwards                                      *)
(***************************************************************************)
InitHourly ==
    /\ \E n \in 1..MaxHourlyLen :
          /\ index \in {[k \in 1..n |-> t + (k - 1)] : t \in StartValues}
          /\ speed \in {[k \in 1..n |-> IF k <= w THEN MAX_WIND_SPEED + 1
                                                  ELSE MAX_WIND_SPEED] : w \in 0..n}
          /\ revenue = [k \in 1..n |-> 10 * k * k]
    /\ policy \in {ConditionMonitoring(th) : th \in HourlyThresholds}
    /\ pressure = <<>>
    /\ visit = <<>>
    /\ n_visits = 0
    /\ current_pressure = INIT_PRES
    /\ end_visit_ts = 0
    /\ pending_visit = FALSE
    /\ send_vessel = FALSE
    /\ i = 1
    /\ pc = "idle"
    /\ total_revenue = 0
    /\ runs = 0
    /\ visits = <<>>
    /\ carried = <<>>
    /\ dropped = {}
    /\ n_resets = 0
    /\ prev_out = NoOutput

SpecHourly == InitHourly /\ [][Next]_vars

(***************************************************************************)
(* calculate_revenue as a function of its arguments: an annotated frame    *)
(* and a strategy object with any visit count, as the caller may hold them *)
(***************************************************************************)
InitRevenue ==
    /\ \E n \in 1..MaxRevLen :
          /\ index \in {s \in Series(n) :
                           \A k \in 1..(n - 1) : s[k + 1] - s[k] = HoursPerDay}
          /\ speed = [k \in 1..n |-> MAX_WIND_SPEED]
          /\ revenue \in [1..n -> RevenueValues]
          /\ pressure \in [1..n -> PressureSamples]
          /\ visit \in [1..n -> {0, 1}]
          /\ i = n + 1
    /\ policy = TablePolicy({})
    /\ n_visits \in 0..MaxVisitCount
    /\ current_pressure = INIT_PRES
    /\ end_visit_ts = Last(index) + timedelta(1)
    /\ pending_visit = FALSE
    /\ send_vessel = FALSE
    /\ pc = "done"
    /\ total_revenue = 0
    /\ runs = 1
    /\ visits = <<>>
    /\ carried = <<>>
    /\ dropped = {}
    /\ n_resets = 0
    /\ prev_out = NoOutput

NextRevenue == CalculateRevenue

SpecRevenue == InitRevenue /\ [][NextRevenue]_vars

(***************************************************************************)
(* Vocabulary of the properties                                            *)
(***************************************************************************)
Rows == 1..Len(index)
Walked == 1..(i - 1)                 \* rows whose step has been taken
StartOf(v) == v[1]
EndOf(v) == v[2]
Due(v) == StartOf(v) + timedelta(MAINTENANCE_DURATION)
InWindow(k, v) == StartOf(v) <= index[k] /\ index[k] <= EndOf(v)
InSomeWindow(k) == \E n \in 1..Len(visits) : InWindow(k, visits[n])
IsEndRow(k) == \E n \in 1..Len(visits) : EndOf(visits[n]) = index[k]
OpenVisits == Len(visits) - n_resets

\* C1: at most one visit is pending at any time, and a step taken while
\* pending_visit is true starts no visit: n_visits and end_visit_ts keep
\* their values, whatever fix_pressure answers.
C1_VisitExclusivity ==
    /\ [](OpenVisits = IF pending_visit THEN 1 ELSE 0)
    /\ [][(pc = "walk" /\ i' = i + 1 /\ pending_visit)
            => /\ n_visits' = n_visits
               /\ end_visit_ts' = end_visit_ts
               /\ visits' = visits]_vars

\* a step was taken on which the policy said yes while a visit was pending
C1_Witness ==
    /\ pc = "walk"
    /\ i > 2
    /\ send_vessel
    /\ pending_visit
    /\ Len(visits) = 1
    /\ StartOf(visits[1]) < index[i - 1]

\* C2: every walked row whose timestamp lies in the closed interval from a
\* visit's triggering row through its end timestamp has visit flag 1.
C2_WindowFlagged ==
    \A n \in 1..Len(visits) : \A k \in Walked :
        InWindow(k, visits[n]) => visit[k] = 1

\* a finished walk with a visit that covers three rows
C2_Witness ==
    /\ pc = "done"
    /\ \E n \in 1..Len(visits) :
          Cardinality({k \in Rows : InWindow(k, visits[n])}) >= 3

\* C3: a visit started at t ends at the first timestamp of the series that is
\* >= t + visit duration, and at the last timestamp when t + visit duration
\* lies beyond it; the end is a timestamp of the series, >= t and <= the last.
C3_EndTimestamp ==
    \A n \in 1..Len(visits) :
        LET v == visits[n]
        IN  /\ EndOf(v) \in Range(index)
            /\ EndOf(v) >= StartOf(v)
            /\ EndOf(v) <= Last(index)
            /\ Due(v) > Last(index) => EndOf(v) = Last(index)
            /\ Due(v) <= Last(index) =>
                  /\ EndOf(v) >= Due(v)
                  /\ \A t \in Range(index) : t >= Due(v) => EndOf(v) <= t

\* one walk holds a visit ending after its due time on the next row there is,
\* and a visit clamped to the last row
C3_Witness ==
    /\ \E n \in 1..Len(visits) :
          Due(visits[n]) < EndOf(visits[n])
    /\ \E n \in 1..Len(visits) :
          Due(visits[n]) > Last(index) /\ EndOf(visits[n]) = Last(index)

\* C4: a step with no visit pending, a yes of the policy and
\* speed > MAX_WIND_SPEED starts nothing (flag 0, pending_visit false,
\* n_visits and end_visit_ts unchanged); a visit starts only at a step where
\* the policy says yes at that step and the speed is <= MAX_WIND_SPEED.
C4_WindGate ==
    [][(pc = "walk" /\ i' = i + 1)
         => /\ (~pending_visit /\ send_vessel' /\ speed[i] > MAX_WIND_SPEED)
                 => /\ visit'[i] = 0
                    /\ pending_visit' = FALSE
                    /\ n_visits' = n_visits
                    /\ end_visit_ts' = end_visit_ts
            /\ n_visits' # n_visits
                 => /\ n_visits' = n_visits + 1
                    /\ send_vessel'
                    /\ speed[i] <= MAX_WIND_SPEED]_vars

\* a trigger was dropped at one row and a visit started at a later row
C4_Witness ==
    \E d \in dropped : \E n \in 1..Len(visits) :
        /\ index[d] < StartOf(visits[n])
        /\ visit[d] = 0

\* C5: a step resets current_pressure to INIT_PRES and clears pending_visit
\* exactly when its timestamp is the end timestamp of the visit in progress;
\* that row is flagged and records INIT_PRES; every other step leaves the
\* pressure at its decayed value.
C5_ResetAtVisitEnd ==
    [][(pc = "walk" /\ i' = i + 1)
         => LET atEnd == Len(visits') > 0 /\ EndOf(Last(visits')) = index[i]
                active == pending_visit \/ n_visits' # n_visits
            IN  /\ (current_pressure' = INIT_PRES) <=> atEnd
                /\ (active /\ ~pending_visit') <=> atEnd
                /\ (n_resets' = n_resets + 1) <=> atEnd
                /\ atEnd => visit'[i] = 1 /\ pressure'[i] = INIT_PRES
                /\ ~atEnd => /\ current_pressure' = FSub[current_pressure, DECLINE_RATE]
                             /\ n_resets' = n_resets]_vars

\* a visit has ended on an earlier row, which is flagged and records
\* INIT_PRES, and later rows have decayed without another reset
C5_Witness ==
    /\ n_resets = 1
    /\ ~pending_visit
    /\ current_pressure = FSub[FSub[INIT_PRES, DECLINE_RATE], DECLINE_RATE]
    /\ \E k \in Walked : IsEndRow(k) /\ visit[k] = 1 /\ pressure[k] = INIT_PRES

RECURSIVE SumRows(_, _)
\* the sum of the column col over the rows of the set S
SumRows(S, col) ==
    IF S = {} THEN 0
    ELSE LET k == CHOOSE x \in S : TRUE
         IN  col[k] + SumRows(S \ {k}, col)

\* C6: outside the rows on which a visit ends, every walked row records a
\* pressure exactly DECLINE_RATE below the pressure recorded by the row
\* before it (below INIT_PRES for the first row), rows of a pending visit
\* and rows whose trigger the wind gate dropped included.
C6_MonotonicDecay ==
    \A k \in Walked :
        ~IsEndRow(k) =>
            /\ ~IsNaN(pressure[k])
            /\ k = 1 => pressure[k] = FSub[INIT_PRES, DECLINE_RATE]
            /\ k > 1 => /\ ~IsNaN(pressure[k - 1])
                        /\ pressure[k] = FSub[pressure[k - 1], DECLINE_RATE]

\* C7: when add_downtimes has returned, every row records the pressure
\* carried at the end of its step, and no row is left with NaN.
C7_EveryRowRecorded ==
    pc = "done" =>
        \A k \in Rows : ~IsNaN(pressure[k]) /\ pressure[k] = carried[k]

\* C8: calculate_revenue returns the sum of the revenue of the rows with
\* pressure >= MIN_PRES and visit flag 0, less n_visits * VESSEL_COST, and
\* changes neither the frame nor n_visits.
C8_RevenueSum ==
    /\ [](pc = "reported" =>
            total_revenue =
                SumRows({k \in Rows : /\ visit[k] # 1
                                      /\ ~IsNaN(pressure[k])
                                      /\ ~Lt[pressure[k], MIN_PRES]}, revenue)
                - n_visits * VESSEL_COST)
    /\ [][(pc = "done" /\ pc' = "reported")
            => UNCHANGED <<index, speed, revenue, pressure, visit, n_visits>>]_vars

\* revenue was computed for a frame with a flagged row at INIT_PRES, an
\* unflagged row just below MIN_PRES and an unflagged row at MIN_PRES
C8_Witness ==
    /\ pc = "reported"
    /\ n_visits > 0
    /\ \E a, b, c \in Rows :
          /\ visit[a] = 1 /\ pressure[a] = INIT_PRES /\ revenue[a] # 0
          /\ visit[b] = 0 /\ pressure[b] = BelowMinPres /\ revenue[b] # 0
          /\ visit[c] = 0 /\ pressure[c] = MIN_PRES /\ revenue[c] # 0

\* C9: after add_downtimes and calculate_revenue, every row that lies in no
\* visit window and whose carried pressure is >= MIN_PRES has contributed
\* its revenue, rows whose trigger the wind gate dropped included.
C9_OnlyVisitsAndLowPressureExcluded ==
    pc = "reported" =>
        total_revenue =
            SumRows({k \in Rows : ~InSomeWindow(k) /\ Ge[carried[k], MIN_PRES]}, revenue)
            - n_visits * VESSEL_COST

\* C10: a second call of add_downtimes on the same frame with the same
\* strategy object returns the same pressure and visit columns and leaves
\* the same n_visits as the first call.
C10_Determinism ==
    (pc = "done" /\ runs = 2) =>
        /\ pressure = prev_out.pressure
        /\ visit = prev_out.visit
        /\ n_visits = prev_out.n_visits

\* the parameters the constructors are meant to accept
ValidParameters(self) ==
    CASE self.kind = "Scheduled" -> self.day \in 1..31 /\ self.month \in 1..12
      [] self.kind = "Condition" -> Lt[Zero, self.pressure_threshold]
      [] OTHER -> TRUE

\* C11: no policy built with a day outside 1..31, a month outside 1..12 or a
\* threshold <= 0 exists for add_downtimes to run with.
C11_InvalidParametersRejected ==
    pc = "walk" => ValidParameters(policy)

RECURSIVE DaysBefore(_)
\* days of the year before the first of month m
DaysBefore(m) == IF m = 1 THEN 0 ELSE MonthLengths[m - 1] + DaysBefore(m - 1)

\* the timestamps of the calendar day (day, month): none when there is no
\* such day in the calendar
HoursOfDay(day, month) ==
    IF month \in 1..12 /\ day >= 1 /\ day <= MonthLengths[month]
    THEN LET first == (DaysBefore(month) + day - 1) * HoursPerDay
         IN  first..(first + HoursPerDay - 1)
    ELSE {}

\* C12: fix_pressure changes nothing: the policy's parameters never change
\* and n_visits changes only in a step of add_downtimes, by +1 together with
\* the start of a visit.  Its answer is, for ScheduledMaintenance, whether the
\* row's timestamp lies on the configured calendar day, and for
\* ConditionMonitoring, whether the pressure it is given is <= the threshold.
C12_PurePredicate ==
    /\ [][policy' = policy]_vars
    /\ [][n_visits' # n_visits
            => /\ pc = "walk" /\ i' = i + 1
               /\ n_visits' = n_visits + 1
               /\ Len(visits') = Len(visits) + 1]_vars
    /\ [][(pc = "walk" /\ i' = i + 1)
            => /\ policy.kind = "Scheduled"
                    => (send_vessel' <=> index[i] \in HoursOfDay(policy.day, policy.month))
               /\ policy.kind = "Condition"
                    => (send_vessel' <=>
                          ~Lt[policy.pressure_threshold,
                               FSub[current_pressure, DECLINE_RATE]])]_vars

\* a ScheduledMaintenance walk that answered yes on the configured day,
\* started its one visit there, and answers no on a row of a later day
C12_Witness ==
    /\ policy.kind = "Scheduled"
    /\ pc = "walk"
    /\ i > 2
    /\ ~send_vessel
    /\ n_visits = 1
    /\ StartOf(visits[1]) = index[1]
    /\ index[1] \in HoursOfDay(policy.day, policy.month)
    /\ ~(index[i - 1] \in HoursOfDay(policy.day, policy.month))

DayOf(ts) == ts \div HoursPerDay

\* C13: with ScheduledMaintenance no two visits of a walk start on the same
\* calendar day, although the policy answers yes on every row of that day.
C13_OneVisitPerScheduledDay ==
    policy.kind = "Scheduled" =>
        \A a, b \in 1..Len(visits) :
            a # b => DayOf(StartOf(visits[a])) # DayOf(StartOf(visits[b]))

\* the policy has just said yes on the third row of the day on whose first
\* row the walk's only visit started
C13_Witness ==
    /\ policy.kind = "Scheduled"
    /\ pc = "walk"
    /\ i = 4
    /\ send_vessel
    /\ Len(visits) = 1
    /\ StartOf(visits[1]) = index[1]
    /\ DayOf(index[3]) = DayOf(index[1])
    /\ n_visits = 1

RECURSIVE Decayed(_, _)
\* the pressure p after n rows of decay: DECLINE_RATE subtracted n times
Decayed(p, n) == IF n = 0 THEN p ELSE Decayed(FSub[p, DECLINE_RATE], n - 1)

\* rows at which a ConditionMonitoring walk that has had no reset yet is due
\* to start a visit
FirstTriggerRows ==
    {k \in Walked : /\ Le[Decayed(INIT_PRES, k), policy.pressure_threshold]
                    /\ speed[k] <= MAX_WIND_SPEED}

\* C14: the policy sees the pressure after the row's decrement, so with
\* ConditionMonitoring the first visit of a walk starts at the first row k
\* at which INIT_PRES after k subtractions of DECLINE_RATE is <= threshold
\* and speed <= MAX_WIND_SPEED (the first row of the series for threshold
\* 1.9999 and calm wind), and no visit starts while there is no such row.
C14_FirstTrigger ==
    policy.kind = "Condition" =>
        IF FirstTriggerRows = {}
        THEN visits = <<>> /\ n_resets = 0
        ELSE /\ Len(visits) >= 1
             /\ \E k \in FirstTriggerRows :
                   /\ \A j \in FirstTriggerRows : k <= j
                   /\ StartOf(visits[1]) = index[k]
                   /\ visit[k] = 1

\* threshold 1.9989 and calm wind: the pressure of the eleventh row is still
\* above the threshold and the visit started on the twelfth row
C14_Witness ==
    /\ policy.kind = "Condition"
    /\ policy.pressure_threshold = Double_1_9989
    /\ pc = "done"
    /\ Len(index) >= 12
    /\ \A k \in 1..12 : speed[k] <= MAX_WIND_SPEED
    /\ Len(visits) >= 1
    /\ StartOf(visits[1]) = index[12]
    /\ visit[11] = 0
    /\ Lt[policy.pressure_threshold, pressure[11]]
    /\ visit[12] = 1

\* C15: a walk takes exactly one step per row and then returns: while it
\* runs, the next iteration or the return can always be taken, each iteration
\* moves to the next row, and the return comes after the last row.  When it
\* has returned no visit is pending and the walk has reset the pressure once
\* per visit it started.
C15_WalkCompletes ==
    /\ [](pc = "walk" =>
            /\ i \in 1..(Len(index) + 1)
            /\ Len(carried) = i - 1
            /\ ENABLED (Step \/ AddDowntimesReturn))
    /\ [][(pc = "walk" /\ pc' = "walk") => (i <= Len(index) /\ i' = i + 1)]_vars
    /\ [](pc = "done" =>
            /\ i = Len(index) + 1
            /\ Len(carried) = Len(index)
            /\ pending_visit = FALSE
            /\ n_resets = Len(visits))

\* a finished walk of the longest series that started two visits and ended both
C15_Witness ==
    /\ pc = "done"
    /\ Len(index) = MaxLen
    /\ Len(visits) = 2
    /\ n_resets = 2
    /\ ~pending_visit

\* C16: the visit windows of a walk are strictly ordered and disjoint: each
\* visit starts on a row later than the end of the visit before it; and a
\* row is flagged only if it lies in the closed window of a started visit.
C16_WindowsDisjoint ==
    /\ \A n \in 1..Len(visits) : StartOf(visits[n]) <= EndOf(visits[n])
    /\ \A n \in 1..(Len(visits) - 1) : EndOf(visits[n]) < StartOf(visits[n + 1])
    /\ \A k \in DOMAIN visit : visit[k] = 1 => (k \in Walked /\ InSomeWindow(k))

\* a second visit started on the row right after the row that ended the
\* first, and a row before the first visit is unflagged
C16_Witness ==
    /\ pc = "done"
    /\ Len(visits) = 2
    /\ visit[1] = 0
    /\ \E k \in Rows :
          /\ k + 1 \in Rows
          /\ index[k] = EndOf(visits[1])
          /\ index[k + 1] = StartOf(visits[2])

\* C17: with ConditionMonitoring, a step taken with no visit pending and
\* the carried pressure already <= threshold gets a yes again; it starts a
\* visit on its row when the speed is <= MAX_WIND_SPEED and is dropped
\* otherwise, so after a dropped trigger the visit starts on the first later
\* row with speed <= MAX_WIND_SPEED.  The carried pressure loses
\* DECLINE_RATE on every dropped step and on every step that leaves the
\* visit pending.
C17_TriggerRecurs ==
    /\ [][(pc = "walk" /\ i' = i + 1 /\ policy.kind = "Condition")
            => /\ (~pending_visit /\ Le[current_pressure, policy.pressure_threshold])
                    => /\ send_vessel'
                       /\ speed[i] <= MAX_WIND_SPEED
                            => /\ Len(visits') = Len(visits) + 1
                               /\ StartOf(Last(visits')) = index[i]
                               /\ visit'[i] = 1
                       /\ speed[i] > MAX_WIND_SPEED
                            => /\ dropped' = dropped \cup {i}
                               /\ visits' = visits
                               /\ ~pending_visit'
               /\ (i \in dropped' \/ pending_visit')
                    => current_pressure' = FSub[current_pressure, DECLINE_RATE]]_vars
    /\ [](policy.kind = "Condition" =>
            \A d \in dropped : \A k \in Walked :
                (/\ d < k
                 /\ speed[k] <= MAX_WIND_SPEED
                 /\ \A j \in (d + 1)..(k - 1) : speed[j] > MAX_WIND_SPEED)
                => /\ \E n \in 1..Len(visits) : StartOf(visits[n]) = index[k]
                   /\ \A j \in d..(k - 1) : j \in dropped
                   /\ carried[k - 1] = Decayed(carried[d], k - 1 - d))

\* the trigger was dropped on the first two rows and the visit started on
\* the third, calm, row and is pending, the pressure having decayed on all three
C17_Witness ==
    /\ policy.kind = "Condition"
    /\ pc = "walk"
    /\ i = 4
    /\ dropped = {1, 2}
    /\ speed[3] <= MAX_WIND_SPEED
    /\ Len(visits) = 1
    /\ StartOf(visits[1]) = index[3]
    /\ pending_visit
    /\ current_pressure = Decayed(INIT_PRES, 3)

====
